---- MODULE Spec2Model ----
(***************************************************************************)
(* The scoring, classification and roadmap engine of the ISMS maturity     *)
(* backend: the questionnaire routes and model (routes/questionnaires.js,  *)
(* the Questionnaire schema) and the roadmap routes and model              *)
(* (routes/roadmaps.js, the Roadmap schema).                               *)
(*                                                                         *)
(* Numbers.  Weights are integers.  A per-response score is weight,        *)
(* weight * 0.5 or 0, so the field `score` holds TWICE the score (halves). *)
(* overallScore has one decimal place, so the field `overallScore` holds   *)
(* TEN TIMES the score (tenths): 50.0 is 500, 89.9 is 899.  Category       *)
(* scores and progress percentages are integers and are held as they are.  *)
(*                                                                         *)
(* Persistence.  document.save() runs the schema's pre('save') hook and    *)
(* the schema's validators and then writes the document; the model takes   *)
(* the validators to see the document as the hook completed it (a new      *)
(* questionnaire gets its required derived fields from the hook).  A save  *)
(* that throws leaves the stored collection as it was.                     *)
(***************************************************************************)
EXTENDS Integers, Sequences, FiniteSets

VARIABLES
    questionnaires,  \* the Questionnaire collection: a sequence indexed by id, NoDoc once deleted
    roadmaps,        \* the Roadmap collection: a sequence indexed by id, NoDoc once deleted
    res,             \* the HTTP response of the last request
    input,           \* scoring runs: the response sequence under test
    probe,           \* classification runs: the score (tenths) under test
    classified,      \* classification runs: the scores getMaturityLevel was applied to, with its results
    now,             \* the clock: what new Date() returns
    handlers         \* concurrent runs: each request handler's position and loaded document

vars == <<questionnaires, roadmaps, res, input, probe, classified, now, handlers>>

(***************************************************************************)
(* Bounds of the model.                                                    *)
(***************************************************************************)
MaxQuestionnaires == 1
MaxRoadmaps == 1
MaxResponses == 2
MaxRequestResponses == 1
MaxTaskId == 5
MaxTasks == 3
MaxClock == 2
MaxHandlers == 2

(***************************************************************************)
(* Values.                                                                 *)
(***************************************************************************)
NoValue == "undefined"
NoDoc == [deleted |-> TRUE]

\* A request body is a record of its fields with the set `present` of the
\* fields the client sent: a field that is not present is undefined.
Has(body, field) == field \in body.present

Categories == <<"Plan", "Do", "Check", "Act">>
CategorySet == {Categories[i] : i \in DOMAIN Categories}
ResponseValues == {"Oui", "Non", "Partiellement"}
QuestionnaireStatuses == {"draft", "completed", "archived"}

Users == {"alice", "bob", "root"}
Role(user) == IF user = "root" THEN "admin" ELSE "user"

(***************************************************************************)
(* Arithmetic of the scoring code.                                         *)
(***************************************************************************)
RECURSIVE SumWeight(_)
SumWeight(rs) ==
    IF rs = <<>> THEN 0 ELSE rs[1].weight + SumWeight(Tail(rs))

RECURSIVE SumScore(_)
SumScore(rs) ==
    IF rs = <<>> THEN 0 ELSE rs[1].score + SumScore(Tail(rs))

InCategory(rs, c) == SelectSeq(rs, LAMBDA r : r.category = c)

\* The ties k + 0.5 (k listed) that the IEEE-754 double evaluation of
\* (s / w) * 100 * 10 misses from below: the product comes out just under the
\* tie, e.g. (11.5 / 40) * 100 * 10 = 287.49999999999994.
TenthsTieBelow ==
    {5, 29, 51, 59, 70, 72, 86, 90, 105, 120, 142, 173, 175, 178, 203, 205,
     208, 213, 235, 238, 243, 282, 284, 287, 344, 348, 349, 354, 359, 364,
     408, 409, 413, 414, 419, 424, 469, 473, 474, 479, 484, 489, 501, 502,
     503, 504, 506, 507, 508, 509, 512, 517, 626, 627, 631, 632, 637, 641,
     646, 651, 656, 661, 666, 751, 754, 756, 759, 761, 764, 766, 771, 776,
     781, 786, 791, 876, 879, 881, 884, 886, 889, 891, 896, 901, 906, 911,
     916}

\* The same for (s / w) * 100, e.g. (11.5 / 20) * 100 = 57.49999999999999.
UnitsTieBelow == {14, 28, 56, 57}

\* Math.round(x) for x = num / den, den > 0: the nearest integer, a tie going
\* up, where x is the double the code computed: a tie in `below` was computed
\* just under the tie and goes down.
MathRound(num, den, below) ==
    LET up == (2 * num + den) \div (2 * den)
        tie == (2 * num + den) % (2 * den) = 0
    IN  IF tie /\ (up - 1) \in below THEN up - 1 ELSE up

\* Math.round((totalScore / totalWeight) * 100 * 10) / 10, in tenths.
\* totalScore is in halves: x = 1000 * score2 / (2 * weight).
RoundToTenth(score2, weight) == MathRound(1000 * score2, 2 * weight, TenthsTieBelow)

\* Variant: the percentage is truncated.
RoundToUnitDown(score2, weight) == (100 * score2) \div (2 * weight)

\* Math.round((score / weight) * 100).
RoundToUnit(score2, weight) == MathRound(100 * score2, 2 * weight, UnitsTieBelow)

(***************************************************************************)
(* questionnaireSchema.methods.getMaturityLevel; score in tenths.  The     *)
(* level names are written without their accents.  The first definition is *)
(* the variant with exclusive lower bounds.                                 *)
(***************************************************************************)
getMaturityLevelExclusive(score) ==
    IF score > 900 THEN
        [level |-> "Excellence", color |-> "success",
         description |-> "SMSI mature et robuste"]
    ELSE IF score > 750 THEN
        [level |-> "Avance", color |-> "info",
         description |-> "SMSI bien structure"]
    ELSE IF score > 600 THEN
        [level |-> "Intermediaire", color |-> "warning",
         description |-> "SMSI en developpement"]
    ELSE IF score > 400 THEN
        [level |-> "Basique", color |-> "secondary",
         description |-> "SMSI en phase initiale"]
    ELSE
        [level |-> "Critique", color |-> "danger",
         description |-> "SMSI necessite une attention immediate"]

getMaturityLevel(score) ==
    IF score >= 900 THEN
        [level |-> "Excellence", color |-> "success",
         description |-> "SMSI mature et robuste"]
    ELSE IF score >= 750 THEN
        [level |-> "Avance", color |-> "info",
         description |-> "SMSI bien structure"]
    ELSE IF score >= 600 THEN
        [level |-> "Intermediaire", color |-> "warning",
         description |-> "SMSI en developpement"]
    ELSE IF score >= 400 THEN
        [level |-> "Basique", color |-> "secondary",
         description |-> "SMSI en phase initiale"]
    ELSE
        [level |-> "Critique", color |-> "danger",
         description |-> "SMSI necessite une attention immediate"]

(***************************************************************************)
(* The routes' scoring of the supplied responses: `{...response, score}`.  *)
(* A score the client supplied is overwritten.                             *)
(***************************************************************************)
\* Variant: the score the client supplied is kept.
ResponseScoreOfClient(response) == response.score

ResponseScore(response) ==
    IF response.response = "Oui" THEN 2 * response.weight
    ELSE IF response.response = "Partiellement" THEN response.weight
    ELSE 0

scoredResponses(responses) ==
    [i \in DOMAIN responses |->
        [questionId |-> responses[i].questionId,
         questionText |-> responses[i].questionText,
         category |-> responses[i].category,
         clause |-> responses[i].clause,
         weight |-> responses[i].weight,
         critical |-> responses[i].critical,
         response |-> responses[i].response,
         score |-> ResponseScore(responses[i])]]

(***************************************************************************)
(* questionnaireSchema.pre('save').                                        *)
(***************************************************************************)
OverallScore(rs) ==
    IF SumWeight(rs) > 0 THEN RoundToTenth(SumScore(rs), SumWeight(rs)) ELSE 0

CategoryScore(rs, c) ==
    IF SumWeight(InCategory(rs, c)) > 0
    THEN RoundToUnit(SumScore(InCategory(rs, c)), SumWeight(InCategory(rs, c)))
    ELSE 0

QuestionnairePreSave(doc, responsesModified) ==
    IF responsesModified
    THEN [doc EXCEPT
            !.overallScore = OverallScore(doc.responses),
            !.categoryScores = [c \in CategorySet |-> CategoryScore(doc.responses, c)],
            !.maturityLevel = getMaturityLevel(OverallScore(doc.responses)),
            !.totalQuestions = Len(doc.responses),
            !.answeredQuestions =
                Len(SelectSeq(doc.responses, LAMBDA r : r.response # NoValue))]
    ELSE doc

(***************************************************************************)
(* The schema's validators: questionResponseSchema and questionnaireSchema.*)
(***************************************************************************)
\* Variant: the response field has no enumeration.
ResponseSchemaValidAnyResponse(r) ==
    /\ r.questionId # NoValue
    /\ r.questionText # NoValue
    /\ r.category \in CategorySet
    /\ r.clause # NoValue
    /\ r.weight \in Int
    /\ r.score \in Int

ResponseSchemaValid(r) ==
    /\ r.questionId # NoValue
    /\ r.questionText # NoValue
    /\ r.category \in CategorySet
    /\ r.clause # NoValue
    /\ r.weight \in Int
    /\ r.response \in ResponseValues
    /\ r.score \in Int

QuestionnaireSchemaValid(doc) ==
    /\ \A i \in DOMAIN doc.responses : ResponseSchemaValid(doc.responses[i])
    /\ doc.overallScore \in 0..1000
    /\ \A c \in CategorySet : doc.categoryScores[c] \in 0..100
    /\ doc.status \in QuestionnaireStatuses

(***************************************************************************)
(* A new Questionnaire document as POST /api/questionnaires constructs it, *)
(* before save(): the derived fields are not set, majorNonConformities     *)
(* takes the schema's default (an empty array), status its default.        *)
(***************************************************************************)
NewQuestionnaire(user, body) ==
    [userId |-> user,
     responses |-> scoredResponses(body.responses),
     overallScore |-> NoValue,
     categoryScores |-> NoValue,
     maturityLevel |-> NoValue,
     majorNonConformities |-> <<>>,
     totalQuestions |-> NoValue,
     answeredQuestions |-> NoValue,
     status |-> "completed",
     notes |-> IF Has(body, "notes") THEN body.notes ELSE "",
     tags |-> IF Has(body, "tags") THEN body.tags ELSE <<>>]

\* The express-validator chain of POST /api/questionnaires.
SubmitValidators(body) ==
    /\ Has(body, "responses")
    /\ Len(body.responses) >= 1
    /\ \A i \in DOMAIN body.responses :
        LET r == body.responses[i]
        IN  /\ r.questionId # NoValue
            /\ r.questionText # NoValue
            /\ r.category \in CategorySet
            /\ r.clause # NoValue
            /\ r.weight \in Int
            /\ r.critical \in BOOLEAN
            /\ r.response \in ResponseValues

\* The express-validator chain of PUT /api/questionnaires/:id.
UpdateValidators(body) ==
    /\ Has(body, "responses") => Len(body.responses) >= 1
    /\ Has(body, "status") => body.status \in QuestionnaireStatuses

\* The HTTP response of a route: its status and the `error` of its body.
Response(op, status, error) == [op |-> op, status |-> status, error |-> error]

Exists(collection, id) == id \in DOMAIN collection /\ collection[id] # NoDoc

MayAccess(doc, user) == doc.userId = user \/ Role(user) = "admin"

(***************************************************************************)
(* POST /api/questionnaires.                                               *)
(***************************************************************************)
SubmittedQuestionnaire(user, body) ==
    QuestionnairePreSave(NewQuestionnaire(user, body), TRUE)

SubmitQuestionnaire(user, body) ==
    /\ UNCHANGED <<roadmaps, input, probe, classified, now, handlers>>
    /\ IF ~SubmitValidators(body)
       THEN /\ res' = Response("submit", 400, "Validation failed")
            /\ UNCHANGED questionnaires
       ELSE IF ~QuestionnaireSchemaValid(SubmittedQuestionnaire(user, body))
       THEN /\ res' = Response("submit", 500, "Questionnaire submission failed")
            /\ UNCHANGED questionnaires
       ELSE /\ Len(questionnaires) < MaxQuestionnaires
            /\ questionnaires' = Append(questionnaires, SubmittedQuestionnaire(user, body))
            /\ res' = Response("submit", 201, "")

(***************************************************************************)
(* PUT /api/questionnaires/:id.                                            *)
(***************************************************************************)
\* Variant: responses that were not sent are taken as empty.
UpdatedQuestionnaireDropsResponses(doc, body) ==
    LET withResponses ==
            IF Has(body, "responses")
            THEN [doc EXCEPT !.responses = scoredResponses(body.responses)]
            ELSE [doc EXCEPT !.responses = <<>>]
        withNotes ==
            IF Has(body, "notes")
            THEN [withResponses EXCEPT !.notes = body.notes]
            ELSE withResponses
        withTags ==
            IF Has(body, "tags")
            THEN [withNotes EXCEPT !.tags = body.tags]
            ELSE withNotes
        withStatus ==
            IF Has(body, "status")
            THEN [withTags EXCEPT !.status = body.status]
            ELSE withTags
    IN  QuestionnairePreSave(withStatus, TRUE)

\* Variant: the new responses are saved without the hook's recomputation.
UpdatedQuestionnaireKeepsScores(doc, body) ==
    LET withResponses ==
            IF Has(body, "responses")
            THEN [doc EXCEPT !.responses = scoredResponses(body.responses)]
            ELSE doc
        withNotes ==
            IF Has(body, "notes")
            THEN [withResponses EXCEPT !.notes = body.notes]
            ELSE withResponses
        withTags ==
            IF Has(body, "tags")
            THEN [withNotes EXCEPT !.tags = body.tags]
            ELSE withNotes
        withStatus ==
            IF Has(body, "status")
            THEN [withTags EXCEPT !.status = body.status]
            ELSE withTags
    IN  QuestionnairePreSave(withStatus, FALSE)

UpdatedQuestionnaire(doc, body) ==
    LET withResponses ==
            IF Has(body, "responses")
            THEN [doc EXCEPT !.responses = scoredResponses(body.responses)]
            ELSE doc
        withNotes ==
            IF Has(body, "notes")
            THEN [withResponses EXCEPT !.notes = body.notes]
            ELSE withResponses
        withTags ==
            IF Has(body, "tags")
            THEN [withNotes EXCEPT !.tags = body.tags]
            ELSE withNotes
        withStatus ==
            IF Has(body, "status")
            THEN [withTags EXCEPT !.status = body.status]
            ELSE withTags
    IN  QuestionnairePreSave(withStatus, Has(body, "responses"))

UpdateQuestionnaire(user, id, body) ==
    /\ UNCHANGED <<roadmaps, input, probe, classified, now, handlers>>
    /\ IF ~UpdateValidators(body)
       THEN /\ res' = Response("update", 400, "Validation failed")
            /\ UNCHANGED questionnaires
       ELSE IF ~Exists(questionnaires, id)
       THEN /\ res' = Response("update", 404, "Questionnaire not found")
            /\ UNCHANGED questionnaires
       ELSE IF ~MayAccess(questionnaires[id], user)
       THEN /\ res' = Response("update", 403, "Access denied")
            /\ UNCHANGED questionnaires
       ELSE IF ~QuestionnaireSchemaValid(UpdatedQuestionnaire(questionnaires[id], body))
       THEN /\ res' = Response("update", 500, "Failed to update questionnaire")
            /\ UNCHANGED questionnaires
       ELSE /\ questionnaires' =
                [questionnaires EXCEPT ![id] = UpdatedQuestionnaire(questionnaires[id], body)]
            /\ res' = Response("update", 200, "")

(***************************************************************************)
(* DELETE /api/questionnaires/:id.                                         *)
(***************************************************************************)
DeleteQuestionnaire(user, id) ==
    /\ UNCHANGED <<roadmaps, input, probe, classified, now, handlers>>
    /\ IF ~Exists(questionnaires, id)
       THEN /\ res' = Response("delete", 404, "Questionnaire not found")
            /\ UNCHANGED questionnaires
       ELSE IF ~MayAccess(questionnaires[id], user)
       THEN /\ res' = Response("delete", 403, "Access denied")
            /\ UNCHANGED questionnaires
       ELSE /\ questionnaires' = [questionnaires EXCEPT ![id] = NoDoc]
            /\ res' = Response("delete", 200, "")

(***************************************************************************)
(* The Roadmap model: the progress virtuals and pre('save').               *)
(***************************************************************************)
TaskStatuses == {"Not Started", "In Progress", "Completed", "On Hold"}

\* A Date is a clock value; NoDate is a date field that is not set.
NoDate == 0 - 1
RoadmapStatuses == {"Draft", "Active", "On Hold", "Completed", "Archived"}
TargetLevels == {"Basique", "Intermediaire", "Avance", "Excellence"}

\* Variant: every task that was started counts as completed.
CompletedOrStarted(tasks) ==
    SelectSeq(tasks, LAMBDA t : t.status \in {"Completed", "In Progress"})

Completed(tasks) == SelectSeq(tasks, LAMBDA t : t.status = "Completed")
TasksIn(tasks, c) == SelectSeq(tasks, LAMBDA t : t.category = c)

\* roadmapSchema.virtual('overallProgress')
overallProgress(tasks) ==
    IF Len(tasks) = 0 THEN 0
    ELSE RoundToUnit(2 * Len(Completed(tasks)), Len(tasks))

\* roadmapSchema.virtual('categoryProgress')
categoryProgress(tasks) ==
    [c \in CategorySet |->
        IF Len(TasksIn(tasks, c)) > 0
        THEN RoundToUnit(2 * Len(Completed(TasksIn(tasks, c))), Len(TasksIn(tasks, c)))
        ELSE 0]

\* Variant: a hook that leaves the stored progress as it is.
RoadmapPreSaveKeepsProgress(doc, tasksModified) == doc

\* roadmapSchema.pre('save')
RoadmapPreSave(doc, tasksModified) ==
    IF tasksModified
    THEN [doc EXCEPT !.progress = [overall |-> overallProgress(doc.tasks),
                                   byCategory |-> categoryProgress(doc.tasks)]]
    ELSE doc

\* The validators of roadmapSchema and taskSchema on the fields modelled.
RoadmapSchemaValid(doc) ==
    /\ doc.targetMaturityLevel \in TargetLevels
    /\ doc.status \in RoadmapStatuses
    /\ \A i \in DOMAIN doc.tasks :
        /\ doc.tasks[i].category \in CategorySet
        /\ doc.tasks[i].status \in TaskStatuses
    /\ \A i \in DOMAIN doc.priorityAreas :
        /\ doc.priorityAreas[i].currentScore \in 0..100
        /\ doc.priorityAreas[i].targetScore \in 0..100
        /\ doc.priorityAreas[i].improvementNeeded \in 0..100
    /\ doc.progress.overall \in 0..100
    /\ \A c \in CategorySet : doc.progress.byCategory[c] \in 0..100

(***************************************************************************)
(* POST /api/roadmaps: the roadmap generated from a questionnaire.         *)
(***************************************************************************)
Min(a, b) == IF a < b THEN a ELSE b

\* Variant: the improvement is always the 20 points aimed at.
priorityAreasFlatImprovement(questionnaire) ==
    [i \in DOMAIN Categories |->
        LET currentScore == questionnaire.categoryScores[Categories[i]]
            targetScore == Min(100, currentScore + 20)
        IN  [category |-> Categories[i],
             currentScore |-> currentScore,
             targetScore |-> targetScore,
             improvementNeeded |-> 20]]

priorityAreas(questionnaire) ==
    [i \in DOMAIN Categories |->
        LET currentScore == questionnaire.categoryScores[Categories[i]]
            targetScore == Min(100, currentScore + 20)
        IN  [category |-> Categories[i],
             currentScore |-> currentScore,
             targetScore |-> targetScore,
             improvementNeeded |-> targetScore - currentScore]]

\* questionnaire.responses.find(r => r.clause === nc.clause)?.category || 'Plan'
ClauseCategory(questionnaire, clause) ==
    LET found == SelectSeq(questionnaire.responses, LAMBDA r : r.clause = clause)
    IN  IF found = <<>> THEN "Plan" ELSE found[1].category

nonConformityTasks(questionnaire) ==
    [i \in DOMAIN questionnaire.majorNonConformities |->
        LET nc == questionnaire.majorNonConformities[i]
        IN  [title |-> <<"Resolve", nc.question>>,
             category |-> ClauseCategory(questionnaire, nc.clause),
             priority |-> "Critical",
             estimatedEffort |-> "1-2 weeks",
             cost |-> "Medium",
             status |-> "Not Started",
             completedDate |-> NoDate]]

\* Variant: a score of 60 counts as low.
RECURSIVE lowScoreTasksInclusive(_, _)
lowScoreTasksInclusive(questionnaire, i) ==
    IF i > Len(Categories) THEN <<>>
    ELSE LET score == questionnaire.categoryScores[Categories[i]]
             rest == lowScoreTasksInclusive(questionnaire, i + 1)
         IN  IF score <= 60
             THEN <<[title |-> <<"Improve", Categories[i]>>,
                     category |-> Categories[i],
                     priority |-> IF score < 40 THEN "High" ELSE "Medium",
                     estimatedEffort |-> "2-4 weeks",
                     cost |-> "Medium",
                     status |-> "Not Started",
                     completedDate |-> NoDate]>> \o rest
             ELSE rest

RECURSIVE lowScoreTasks(_, _)
lowScoreTasks(questionnaire, i) ==
    IF i > Len(Categories) THEN <<>>
    ELSE LET score == questionnaire.categoryScores[Categories[i]]
             rest == lowScoreTasks(questionnaire, i + 1)
         IN  IF score < 60
             THEN <<[title |-> <<"Improve", Categories[i]>>,
                     category |-> Categories[i],
                     priority |-> IF score < 40 THEN "High" ELSE "Medium",
                     estimatedEffort |-> "2-4 weeks",
                     cost |-> "Medium",
                     status |-> "Not Started",
                     completedDate |-> NoDate]>> \o rest
             ELSE rest

initialTasks(questionnaire) ==
    nonConformityTasks(questionnaire) \o lowScoreTasks(questionnaire, 1)

\* Variant: half days.
HalfDays(n) == n * 12 * 60 * 60

\* n * 24 * 60 * 60 * 1000 milliseconds: n days.  The clock counts seconds.
Days(n) == n * 24 * 60 * 60

\* Each targetDate is new Date(Date.now() + offset).
initialMilestones(targetMaturityLevel) ==
    <<[title |-> "Initial Assessment Complete",
       description |-> <<"Questionnaire completed and initial roadmap created">>,
       targetDate |-> now + Days(30),
       status |-> "Completed"],
      [title |-> "Critical Issues Resolved",
       description |-> <<"All major non-conformities addressed">>,
       targetDate |-> now + Days(90),
       status |-> "Pending"],
      [title |-> "Target Maturity Level Achieved",
       description |-> <<"Reach", targetMaturityLevel, "maturity level">>,
       targetDate |-> now + Days(365),
       status |-> "Pending"]>>

complianceRequirements ==
    <<[requirement |-> "Implement basic security controls",
       deadline |-> now + Days(180),
       status |-> "Not Started"],
      [requirement |-> "Establish monitoring and review processes",
       deadline |-> now + Days(270),
       status |-> "Not Started"],
      [requirement |-> "Achieve target maturity level",
       deadline |-> now + Days(365),
       status |-> "Not Started"]>>

\* new Roadmap({...}): progress takes the schema's defaults, status Draft.
NewRoadmap(user, body, questionnaire) ==
    [userId |-> user,
     questionnaireId |-> body.questionnaireId,
     title |-> body.title,
     currentMaturityLevel |-> questionnaire.maturityLevel.level,
     targetMaturityLevel |-> body.targetMaturityLevel,
     priorityAreas |-> priorityAreas(questionnaire),
     tasks |-> initialTasks(questionnaire),
     milestones |-> initialMilestones(body.targetMaturityLevel),
     complianceRequirements |-> complianceRequirements,
     progress |-> [overall |-> 0, byCategory |-> [c \in CategorySet |-> 0]],
     status |-> "Draft"]

\* The express-validator chain of POST /api/roadmaps, on the fields modelled.
CreateRoadmapValidators(body) ==
    /\ Has(body, "questionnaireId")
    /\ Has(body, "title")
    /\ Has(body, "targetMaturityLevel") /\ body.targetMaturityLevel \in TargetLevels

\* Variant: an admin may build on any questionnaire.
OwnsQuestionnaireOrAdmin(questionnaire, user) ==
    questionnaire.userId = user \/ Role(user) = "admin"

\* questionnaire.userId.toString() === req.user._id.toString(): no admin exemption.
OwnsQuestionnaire(questionnaire, user) == questionnaire.userId = user

CreatedRoadmap(user, body) ==
    RoadmapPreSave(NewRoadmap(user, body, questionnaires[body.questionnaireId]), TRUE)

CreateRoadmap(user, body) ==
    /\ UNCHANGED <<questionnaires, input, probe, classified, now, handlers>>
    /\ IF ~CreateRoadmapValidators(body)
       THEN /\ res' = Response("createRoadmap", 400, "Validation failed")
            /\ UNCHANGED roadmaps
       ELSE IF ~Exists(questionnaires, body.questionnaireId)
       THEN /\ res' = Response("createRoadmap", 404, "Questionnaire not found")
            /\ UNCHANGED roadmaps
       ELSE IF ~OwnsQuestionnaire(questionnaires[body.questionnaireId], user)
       THEN /\ res' = Response("createRoadmap", 403, "Access denied")
            /\ UNCHANGED roadmaps
       ELSE IF ~RoadmapSchemaValid(CreatedRoadmap(user, body))
       THEN /\ res' = Response("createRoadmap", 500, "Failed to create roadmap")
            /\ UNCHANGED roadmaps
       ELSE /\ Len(roadmaps) < MaxRoadmaps
            /\ roadmaps' = Append(roadmaps, CreatedRoadmap(user, body))
            /\ res' = Response("createRoadmap", 201, "")

(***************************************************************************)
(* PUT /api/roadmaps/:id: title and status of the fields it may set.       *)
(***************************************************************************)
UpdateRoadmapValidators(body) ==
    Has(body, "status") => body.status \in RoadmapStatuses

\* Variant: a progress the client sent is stored.
UpdatedRoadmapTakesProgress(doc, body) ==
    LET withTitle ==
            IF Has(body, "title") THEN [doc EXCEPT !.title = body.title] ELSE doc
        withStatus ==
            IF Has(body, "status")
            THEN [withTitle EXCEPT !.status = body.status]
            ELSE withTitle
        withProgress ==
            IF Has(body, "progress")
            THEN [withStatus EXCEPT !.progress.overall = body.progress.overall]
            ELSE withStatus
    IN  RoadmapPreSave(withProgress, FALSE)

UpdatedRoadmap(doc, body) ==
    LET withTitle ==
            IF Has(body, "title") THEN [doc EXCEPT !.title = body.title] ELSE doc
        withStatus ==
            IF Has(body, "status")
            THEN [withTitle EXCEPT !.status = body.status]
            ELSE withTitle
    IN  RoadmapPreSave(withStatus, FALSE)

UpdateRoadmap(user, id, body) ==
    /\ UNCHANGED <<questionnaires, input, probe, classified, now, handlers>>
    /\ IF ~UpdateRoadmapValidators(body)
       THEN /\ res' = Response("updateRoadmap", 400, "Validation failed")
            /\ UNCHANGED roadmaps
       ELSE IF ~Exists(roadmaps, id)
       THEN /\ res' = Response("updateRoadmap", 404, "Roadmap not found")
            /\ UNCHANGED roadmaps
       ELSE IF ~MayAccess(roadmaps[id], user)
       THEN /\ res' = Response("updateRoadmap", 403, "Access denied")
            /\ UNCHANGED roadmaps
       ELSE IF ~RoadmapSchemaValid(UpdatedRoadmap(roadmaps[id], body))
       THEN /\ res' = Response("updateRoadmap", 500, "Failed to update roadmap")
            /\ UNCHANGED roadmaps
       ELSE /\ roadmaps' = [roadmaps EXCEPT ![id] = UpdatedRoadmap(roadmaps[id], body)]
            /\ res' = Response("updateRoadmap", 200, "")

(***************************************************************************)
(* POST /api/roadmaps/:id/tasks and roadmapSchema.methods.addTask.         *)
(*                                                                         *)
(* addTask evaluates `new this.model('Task')(taskData)`, which is          *)
(* `(new this.model('Task'))(taskData)`: it constructs with this.model,    *)
(* not with a Task model, and no 'Task' model is registered anywhere (the  *)
(* task schema is only embedded).  The expression throws before            *)
(* this.tasks.push and this.save(), and the route answers 500.             *)
(***************************************************************************)
AddTaskValidators(body) ==
    /\ Has(body, "title")
    /\ Has(body, "category") /\ body.category \in CategorySet

\* The outcome of a model method: the document it saved, or threw.
Threw(doc) == [threw |-> TRUE, doc |-> doc]
Saved(doc) == [threw |-> FALSE, doc |-> doc]

\* roadmapSchema.methods.addTask: the first statement throws.
addTask(doc, taskData) == Threw(doc)

AddTask(user, id, body) ==
    /\ UNCHANGED <<questionnaires, input, probe, classified, now, handlers>>
    /\ IF ~AddTaskValidators(body)
       THEN /\ res' = Response("addTask", 400, "Validation failed")
            /\ UNCHANGED roadmaps
       ELSE IF ~Exists(roadmaps, id)
       THEN /\ res' = Response("addTask", 404, "Roadmap not found")
            /\ UNCHANGED roadmaps
       ELSE IF ~MayAccess(roadmaps[id], user)
       THEN /\ res' = Response("addTask", 403, "Access denied")
            /\ UNCHANGED roadmaps
       ELSE IF addTask(roadmaps[id], body).threw
       THEN /\ res' = Response("addTask", 500, "Failed to add task")
            /\ UNCHANGED roadmaps
       ELSE /\ roadmaps' = [roadmaps EXCEPT ![id] = addTask(roadmaps[id], body).doc]
            /\ res' = Response("addTask", 200, "")

(***************************************************************************)
(* roadmapSchema.methods.addMilestone.  No route calls it; the action is   *)
(* a call of the method on a stored roadmap.  Like addTask it evaluates    *)
(* `new this.model('Milestone')(milestoneData)` first, which throws; `res` *)
(* records the throw with status 0.                                        *)
(***************************************************************************)
addMilestone(doc, milestoneData) == Threw(doc)

AddMilestone(id, milestoneData) ==
    /\ UNCHANGED <<questionnaires, input, probe, classified, now, handlers>>
    /\ Exists(roadmaps, id)
    /\ IF addMilestone(roadmaps[id], milestoneData).threw
       THEN /\ res' = Response("addMilestone", 0, "addMilestone threw")
            /\ UNCHANGED roadmaps
       ELSE /\ roadmaps' =
                [roadmaps EXCEPT ![id] = addMilestone(roadmaps[id], milestoneData).doc]
            /\ res' = Response("addMilestone", 0, "")

(***************************************************************************)
(* PUT /api/roadmaps/:id/tasks/:taskId and                                 *)
(* roadmapSchema.methods.updateTaskStatus.  A task's id is its place in    *)
(* the task sequence.  The tasks are modified when the status changes or a *)
(* completedDate is set.  The definitions that come first are variants.    *)
(***************************************************************************)
\* Variant: the status is set and completedDate is left as it is.
UpdatedTaskStatusKeepsDate(doc, taskId, status) ==
    RoadmapPreSave([doc EXCEPT !.tasks[taskId].status = status],
                   doc.tasks[taskId].status # status)

\* Variant: a task that is already Completed keeps its completedDate.
UpdatedTaskStatusNoRefresh(doc, taskId, status) ==
    RoadmapPreSave([doc EXCEPT
                        !.tasks[taskId].status = status,
                        !.tasks[taskId].completedDate =
                            IF status = "Completed" /\ doc.tasks[taskId].status # "Completed"
                            THEN now ELSE @],
                   doc.tasks[taskId].status # status)

UpdatedTaskStatus(doc, taskId, status) ==
    RoadmapPreSave([doc EXCEPT
                        !.tasks[taskId].status = status,
                        !.tasks[taskId].completedDate =
                            IF status = "Completed" THEN now ELSE @],
                   doc.tasks[taskId].status # status \/ status = "Completed")

\* Variant: an unknown task id is passed over and the roadmap saved.
updateTaskStatusPassesUnknown(doc, taskId, status) ==
    IF taskId \in DOMAIN doc.tasks
    THEN Saved(UpdatedTaskStatus(doc, taskId, status))
    ELSE Saved(doc)

\* roadmapSchema.methods.updateTaskStatus: this.tasks.id(taskId), and
\* throw new Error('Task not found') when there is none.
updateTaskStatus(doc, taskId, status) ==
    IF taskId \in DOMAIN doc.tasks
    THEN Saved(UpdatedTaskStatus(doc, taskId, status))
    ELSE Threw(doc)

UpdateTaskStatus(user, id, taskId, status) ==
    /\ UNCHANGED <<questionnaires, input, probe, classified, now, handlers>>
    /\ IF status \notin TaskStatuses
       THEN /\ res' = Response("updateTask", 400, "Validation failed")
            /\ UNCHANGED roadmaps
       ELSE IF ~Exists(roadmaps, id)
       THEN /\ res' = Response("updateTask", 404, "Roadmap not found")
            /\ UNCHANGED roadmaps
       ELSE IF ~MayAccess(roadmaps[id], user)
       THEN /\ res' = Response("updateTask", 403, "Access denied")
            /\ UNCHANGED roadmaps
       ELSE IF updateTaskStatus(roadmaps[id], taskId, status).threw
       THEN /\ res' = Response("updateTask", 500, "Failed to update task")
            /\ UNCHANGED roadmaps
       ELSE IF ~RoadmapSchemaValid(updateTaskStatus(roadmaps[id], taskId, status).doc)
       THEN /\ res' = Response("updateTask", 500, "Failed to update task")
            /\ UNCHANGED roadmaps
       ELSE /\ roadmaps' =
                [roadmaps EXCEPT ![id] = updateTaskStatus(roadmaps[id], taskId, status).doc]
            /\ res' = Response("updateTask", 200, "")

(***************************************************************************)
(* DELETE /api/roadmaps/:id.                                               *)
(***************************************************************************)
DeleteRoadmap(user, id) ==
    /\ UNCHANGED <<questionnaires, input, probe, classified, now, handlers>>
    /\ IF ~Exists(roadmaps, id)
       THEN /\ res' = Response("deleteRoadmap", 404, "Roadmap not found")
            /\ UNCHANGED roadmaps
       ELSE IF ~MayAccess(roadmaps[id], user)
       THEN /\ res' = Response("deleteRoadmap", 403, "Access denied")
            /\ UNCHANGED roadmaps
       ELSE /\ roadmaps' = [roadmaps EXCEPT ![id] = NoDoc]
            /\ res' = Response("deleteRoadmap", 200, "")

(***************************************************************************)
(* GET /api/questionnaires/:id and GET /api/roadmaps/:id: the document is  *)
(* answered to its owner and to an admin.                                  *)
(***************************************************************************)
GetQuestionnaire(user, id) ==
    /\ UNCHANGED <<questionnaires, roadmaps, input, probe, classified, now, handlers>>
    /\ IF ~Exists(questionnaires, id)
       THEN res' = Response("getQuestionnaire", 404, "Questionnaire not found")
       ELSE IF ~MayAccess(questionnaires[id], user)
       THEN res' = Response("getQuestionnaire", 403, "Access denied")
       ELSE res' = Response("getQuestionnaire", 200, "")

GetRoadmap(user, id) ==
    /\ UNCHANGED <<questionnaires, roadmaps, input, probe, classified, now, handlers>>
    /\ IF ~Exists(roadmaps, id)
       THEN res' = Response("getRoadmap", 404, "Roadmap not found")
       ELSE IF ~MayAccess(roadmaps[id], user)
       THEN res' = Response("getRoadmap", 403, "Access denied")
       ELSE res' = Response("getRoadmap", 200, "")

(***************************************************************************)
(* GET /api/roadmaps/:id/progress.  The roadmap is loaded with             *)
(* .select('progress tasks milestones priorityAreas'): the loaded document *)
(* has these paths and no other, so its userId is undefined and the        *)
(* ownership check's roadmap.userId.toString() throws a TypeError, which   *)
(* the catch block answers with 500.                                       *)
(***************************************************************************)
ProgressFields == {"progress", "tasks", "milestones", "priorityAreas"}

\* Query.select: the document with the selected paths only.
Select(doc, fields) == [f \in fields |-> doc[f]]

StatusCount(tasks, status) == Len(SelectSeq(tasks, LAMBDA t : t.status = status))

ProgressResponse(roadmap) ==
    [op |-> "getProgress", status |-> 200, error |-> "",
     progress |-> [overall |-> roadmap.progress.overall,
                   byCategory |-> roadmap.progress.byCategory],
     taskProgress |-> [total |-> Len(roadmap.tasks),
                       completed |-> StatusCount(roadmap.tasks, "Completed"),
                       inProgress |-> StatusCount(roadmap.tasks, "In Progress"),
                       notStarted |-> StatusCount(roadmap.tasks, "Not Started"),
                       onHold |-> StatusCount(roadmap.tasks, "On Hold")]]

GetProgress(user, id) ==
    /\ UNCHANGED <<questionnaires, roadmaps, input, probe, classified, now, handlers>>
    /\ IF ~Exists(roadmaps, id)
       THEN res' = Response("getProgress", 404, "Roadmap not found")
       ELSE LET roadmap == Select(roadmaps[id], ProgressFields)
            IN  IF "userId" \notin DOMAIN roadmap
                THEN res' = Response("getProgress", 500, "Failed to get progress")
                ELSE IF ~MayAccess(roadmap, user)
                THEN res' = Response("getProgress", 403, "Access denied")
                ELSE res' = ProgressResponse(roadmap)

(***************************************************************************)
(* Requests.                                                               *)
(***************************************************************************)
\* Response sequences of length 1..n over a set of responses.
SeqsUpTo(S, n) == UNION {[1..k -> S] : k \in 1..n}

\* Every response a client sends carries a score of the client's (1, in
\* halves), which no scoring rule yields for the weights sent.
ClientScores == {2}

\* What a client may send as one response of the system runs.  "Peut-etre"
\* is a value outside the enumeration.
RequestResponses ==
    [questionId : {"q1"}, questionText : {"Is the policy approved?"},
     category : {"Plan", "Do"}, clause : {"A.5.1"}, weight : {10},
     critical : {TRUE}, response : {"Oui", "Non", "Peut-etre"},
     score : ClientScores]

Body(present, responses, notes, status) ==
    [present |-> present, responses |-> responses, notes |-> notes, status |-> status]

SubmitBodies ==
    {Body({"responses"}, rs, "", "") : rs \in SeqsUpTo(RequestResponses, MaxRequestResponses)}

UpdateBodies ==
    {Body({"responses"}, rs, "", "") : rs \in SeqsUpTo(RequestResponses, MaxRequestResponses)}
    \cup {Body({"status"}, <<>>, "", "archived")}

QuestionnaireIds == 1..MaxQuestionnaires

\* POST /api/roadmaps bodies; a client-supplied progress is sent along.
CreateRoadmapBodies ==
    {[present |-> {"questionnaireId", "title", "targetMaturityLevel", "progress"},
      questionnaireId |-> q, title |-> "Roadmap", targetMaturityLevel |-> "Avance",
      progress |-> [overall |-> 100]] : q \in QuestionnaireIds}

UpdateRoadmapBodies ==
    {[present |-> {"status", "progress", "tasks"}, title |-> "", status |-> "Active",
      progress |-> [overall |-> 100], tasks |-> <<>>]}

AddTaskBodies ==
    {[present |-> {"title", "category", "progress"}, title |-> "Write the policy",
      category |-> c, progress |-> [overall |-> 100]]
        : c \in {"Plan"}}

MilestoneData == {[title |-> "Policy approved", status |-> "Pending"]}

RoadmapIds == 1..MaxRoadmaps
\* The task ids of the requests: the first two tasks and an id no roadmap has.
RequestTaskIds == {1, 2, MaxTaskId}
RequestTaskStatuses == {"In Progress", "Completed"}

(***************************************************************************)
(* The system: any user sends any request.                                 *)
(***************************************************************************)
NoResponse == Response("none", 0, "")

Init ==
    /\ handlers = <<>>
    /\ questionnaires = <<>>
    /\ roadmaps = <<>>
    /\ res = NoResponse
    /\ input = <<>>
    /\ probe = 0
    /\ classified = {}
    /\ now = 1

Next ==
    \/ \E user \in Users, body \in SubmitBodies : SubmitQuestionnaire(user, body)
    \/ \E user \in Users, id \in QuestionnaireIds, body \in UpdateBodies :
        UpdateQuestionnaire(user, id, body)
    \/ \E user \in Users, id \in QuestionnaireIds : DeleteQuestionnaire(user, id)
    \/ \E user \in Users, body \in CreateRoadmapBodies : CreateRoadmap(user, body)
    \/ \E user \in Users, id \in RoadmapIds, body \in UpdateRoadmapBodies :
        UpdateRoadmap(user, id, body)
    \/ \E user \in Users, id \in RoadmapIds, body \in AddTaskBodies :
        AddTask(user, id, body)
    \/ \E id \in RoadmapIds, milestoneData \in MilestoneData : AddMilestone(id, milestoneData)
    \/ \E user \in Users, id \in RoadmapIds, taskId \in RequestTaskIds,
          status \in RequestTaskStatuses :
        UpdateTaskStatus(user, id, taskId, status)
    \/ \E user \in Users, id \in RoadmapIds : DeleteRoadmap(user, id)
    \/ \E user \in Users, id \in QuestionnaireIds : GetQuestionnaire(user, id)
    \/ \E user \in Users, id \in RoadmapIds : GetRoadmap(user, id)
    \/ \E user \in Users, id \in RoadmapIds : GetProgress(user, id)

Spec == Init /\ [][Next]_vars

(***************************************************************************)
(* Scoring runs: the scoring of one response sequence, by submission on an *)
(* empty collection and by update of a stored questionnaire; and           *)
(* classification runs: getMaturityLevel applied to one score.             *)
(***************************************************************************)
\* What a client may send as one response.  The weights reach the ties of
\* both roundings (23 and 17: 11.5 / 40; 17 and 3: 11.5 / 20) and include
\* weights that are not positive; "Peut-etre" is a value outside the
\* enumeration.
ScoringWeights == {0 - 10, 0, 3, 10, 17, 23}
ScoringResponseValues == ResponseValues \cup {"Peut-etre"}
ScoringCategories == {"Plan", "Act"}

ScoringResponses ==
    [questionId : {"q1"}, questionText : {"Is the policy approved?"},
     category : ScoringCategories, clause : {"A.5.1"}, weight : ScoringWeights,
     critical : BOOLEAN, response : ScoringResponseValues, score : ClientScores]

ScoringInputs == SeqsUpTo(ScoringResponses, MaxResponses)

\* The stored questionnaire the update runs start from.
SeedResponses ==
    <<[questionId |-> "q1", questionText |-> "Is the policy approved?",
       category |-> "Check", clause |-> "A.5.1", weight |-> 10,
       critical |-> TRUE, response |-> "Non", score |-> 2]>>

Seed == SubmittedQuestionnaire("alice", Body({"responses"}, SeedResponses, "", ""))

NoProbe == 0 - 1

InitScoring ==
    /\ handlers = <<>>
    /\ roadmaps = <<>>
    /\ now = 1
    /\ res = NoResponse
    /\ classified = {}
    /\ \/ /\ input \in ScoringInputs
          /\ questionnaires \in {<<>>, <<Seed>>}
          /\ probe = NoProbe
       \/ /\ input = SeedResponses
          /\ questionnaires = <<>>
          /\ probe \in 0..1000

ScoreSubmit ==
    SubmitQuestionnaire("alice", Body({"responses"}, input, "", ""))

ScoreUpdate ==
    UpdateQuestionnaire("alice", 1, Body({"responses"}, input, "", ""))

\* PUT bodies without responses: notes, tags and status, or notes alone.
MetadataBodies ==
    {[present |-> {"notes", "tags", "status"}, responses |-> <<>>,
      notes |-> "reviewed", tags |-> <<"iso27001">>, status |-> "archived"],
     [present |-> {"notes"}, responses |-> <<>>,
      notes |-> "reviewed", tags |-> <<>>, status |-> ""]}

ScoreMetadata ==
    \E body \in MetadataBodies : UpdateQuestionnaire("alice", 1, body)

Classify ==
    /\ probe # NoProbe
    /\ classified = {}
    /\ classified' = {[score |-> probe, result |-> getMaturityLevel(probe)]}
    /\ UNCHANGED <<questionnaires, roadmaps, res, input, probe, now, handlers>>

NextScoring == ScoreSubmit \/ ScoreUpdate \/ ScoreMetadata \/ Classify

SpecScoring == InitScoring /\ [][NextScoring]_vars

(***************************************************************************)
(* Task runs: one task request (a task id and a status) on a stored        *)
(* roadmap, with addTask, addMilestone and the passing of time; and        *)
(* recompute runs: the progress virtuals applied to one task sequence.     *)
(***************************************************************************)
\* What a task can have become: its status and completedDate.  A task that is
\* In Progress with a completedDate was Completed before, at time 0.
TaskStates ==
    {[status |-> "Not Started", completedDate |-> NoDate],
     [status |-> "In Progress", completedDate |-> 0],
     [status |-> "Completed", completedDate |-> 0],
     [status |-> "On Hold", completedDate |-> NoDate]}

\* A scored questionnaire whose categories in `low` score 0 and the others 100.
ScoredQuestionnaire(low) ==
    [userId |-> "alice",
     responses |-> <<>>,
     categoryScores |-> [c \in CategorySet |-> IF c \in low THEN 0 ELSE 100],
     maturityLevel |-> getMaturityLevel(0),
     majorNonConformities |-> <<>>]

\* The stored roadmap generated from it, its tasks having become `states`.
GeneratedRoadmap(low, states) ==
    LET created == NewRoadmap("alice",
                              [questionnaireId |-> 1, title |-> "Roadmap",
                               targetMaturityLevel |-> "Avance"],
                              ScoredQuestionnaire(low))
    IN  RoadmapPreSave(
            [created EXCEPT !.tasks =
                [i \in DOMAIN created.tasks |->
                    [created.tasks[i] EXCEPT !.status = states[i].status,
                                             !.completedDate = states[i].completedDate]]],
            TRUE)

GeneratedRoadmaps ==
    UNION {{GeneratedRoadmap(low, states) : states \in [1..Cardinality(low) -> TaskStates]}
            : low \in SUBSET CategorySet}

\* The task requests: an id and a status; "Done" is no status.
TaskRequests == [taskId : 1..MaxTaskId, status : {"In Progress", "Completed", "Done"}]

\* The task sequences of the recompute runs: any statuses, categories repeated.
DrawnTasks == [category : {"Plan", "Do"}, status : TaskStatuses]
DrawnTaskSequences == UNION {[1..k -> DrawnTasks] : k \in 0..MaxTasks}

InitTasks ==
    /\ handlers = <<>>
    /\ questionnaires = <<>>
    /\ res = NoResponse
    /\ probe = NoProbe
    /\ classified = {}
    /\ now = 1
    /\ \/ /\ roadmaps \in {<<r>> : r \in GeneratedRoadmaps}
          /\ input \in TaskRequests
       \/ /\ roadmaps = <<>>
          /\ input \in DrawnTaskSequences

TaskUpdate ==
    /\ roadmaps # <<>>
    /\ UpdateTaskStatus("alice", 1, input.taskId, input.status)

TaskAdd ==
    /\ roadmaps # <<>>
    /\ \E body \in AddTaskBodies : AddTask("alice", 1, body)

TaskMilestone ==
    \E milestoneData \in MilestoneData : AddMilestone(1, milestoneData)

TaskProgress ==
    /\ roadmaps # <<>>
    /\ \E user \in Users : GetProgress(user, 1)

Tick ==
    /\ roadmaps # <<>>
    /\ now < MaxClock
    /\ now' = now + 1
    /\ UNCHANGED <<questionnaires, roadmaps, res, input, probe, classified, handlers>>

Recompute ==
    /\ roadmaps = <<>>
    /\ classified = {}
    /\ classified' = {[tasks |-> input,
                       overall |-> overallProgress(input),
                       byCategory |-> categoryProgress(input)]}
    /\ UNCHANGED <<questionnaires, roadmaps, res, input, probe, now, handlers>>

NextTasks == TaskUpdate \/ TaskAdd \/ TaskMilestone \/ TaskProgress \/ Tick \/ Recompute

SpecTasks == InitTasks /\ [][NextTasks]_vars

(***************************************************************************)
(* Generation runs: POST /api/roadmaps at some time on one stored          *)
(* questionnaire.  The questionnaire is what POST /api/questionnaires      *)
(* stores for responses that give each category a chosen score.  Its       *)
(* majorNonConformities is either what the code stores (the empty default: *)
(* no code fills it) or the list section 4.2 step 6 prescribes, as a       *)
(* document written by a scoring that follows the specification holds it.  *)
(***************************************************************************)
\* The category scores of the runs: the bounds of the priorities (39, 40,
\* 59, 60), the cap of the target (81, 100) and 0.
GenerationScores == {0, 39, 40, 59, 60, 81, 100}
GenerationScoresOf ==
    [c \in CategorySet |-> IF c \in {"Plan", "Act"} THEN GenerationScores ELSE {39, 60}]

MetQuestion ==
    [c \in CategorySet |->
        CASE c = "Plan" -> "Is the scope defined?"
          [] c = "Do" -> "Are the controls operated?"
          [] c = "Check" -> "Is the system audited?"
          [] c = "Act" -> "Are corrections tracked?"]

UnmetQuestion ==
    [c \in CategorySet |->
        CASE c = "Plan" -> "Are the risks assessed?"
          [] c = "Do" -> "Is the staff trained?"
          [] c = "Check" -> "Is the system reviewed?"
          [] c = "Act" -> "Is the system improved?"]

\* The clause of a category's questions; Plan and Do can share a clause.
ClauseOf(c, shared) ==
    IF shared /\ c \in {"Plan", "Do"} THEN "A.5.1"
    ELSE CASE c = "Plan" -> "A.4.1"
           [] c = "Do" -> "A.8.1"
           [] c = "Check" -> "A.9.1"
           [] c = "Act" -> "A.10.1"

\* The responses of category c that score `score` of 100: an Oui of weight
\* score and a Non of weight 100 - score, a weight 0 being left out.
CategoryResponses(c, score, shared, critical) ==
    LET oui == [questionId |-> "met", questionText |-> MetQuestion[c],
                category |-> c, clause |-> ClauseOf(c, shared), weight |-> score,
                critical |-> FALSE, response |-> "Oui", score |-> 2]
        non == [questionId |-> "unmet", questionText |-> UnmetQuestion[c],
                category |-> c, clause |-> ClauseOf(c, shared), weight |-> 100 - score,
                critical |-> c \in critical, response |-> "Non", score |-> 2]
    IN  (IF score > 0 THEN <<oui>> ELSE <<>>) \o (IF score < 100 THEN <<non>> ELSE <<>>)

GenerationResponses(scores, shared, critical) ==
    CategoryResponses("Plan", scores["Plan"], shared, critical)
        \o CategoryResponses("Do", scores["Do"], shared, critical)
        \o CategoryResponses("Check", scores["Check"], shared, critical)
        \o CategoryResponses("Act", scores["Act"], shared, critical)

\* Section 4.2 step 6: one entry for each critical response answered Non.
PrescribedNonConformities(responses) ==
    LET ncs == SelectSeq(responses, LAMBDA r : r.critical /\ r.response = "Non")
    IN  [i \in DOMAIN ncs |->
            [question |-> ncs[i].questionText, clause |-> ncs[i].clause,
             impact |-> "Non-conformite majeure"]]

GenerationQuestionnaire(scores, shared, critical, listed) ==
    LET stored == SubmittedQuestionnaire(
                      "alice",
                      Body({"responses"}, GenerationResponses(scores, shared, critical), "", ""))
    IN  IF listed
        THEN [stored EXCEPT !.majorNonConformities = PrescribedNonConformities(stored.responses)]
        ELSE stored

GenerationQuestionnaires ==
    {GenerationQuestionnaire(scores, shared, critical, listed) :
        scores \in {f \in [CategorySet -> GenerationScores] :
                        \A c \in CategorySet : f[c] \in GenerationScoresOf[c]},
        shared \in BOOLEAN, critical \in SUBSET {"Do", "Check"}, listed \in BOOLEAN}

InitGeneration ==
    /\ handlers = <<>>
    /\ questionnaires \in {<<q>> : q \in GenerationQuestionnaires}
    /\ roadmaps = <<>>
    /\ res = NoResponse
    /\ input = <<>>
    /\ probe = NoProbe
    /\ classified = {}
    /\ now \in 1..MaxClock

Generate == \E body \in CreateRoadmapBodies : CreateRoadmap("alice", body)

NextGeneration == Generate

SpecGeneration == InitGeneration /\ [][NextGeneration]_vars

(***************************************************************************)
(* Concurrent runs: MaxHandlers requests PUT /api/roadmaps/:id/tasks/:taskId*)
(* of the owner on one stored roadmap, each handler taking its two awaits  *)
(* as two steps: `await Roadmap.findById` (Load), and from the ownership   *)
(* check through updateTaskStatus and its `this.save()` to the response    *)
(* (Save).  Other handlers run between the two.                            *)
(*                                                                         *)
(* document.save() of a loaded document sends the paths modified since the *)
(* load (an update with $set of those paths); every other path of the      *)
(* stored document stays as it is stored.  Setting fields of an array      *)
(* element adds the loaded version to the update's condition and does not  *)
(* increment the version, so in these runs the condition always holds.     *)
(***************************************************************************)
Written(stored, before, after) ==
    [stored EXCEPT
        !.title = IF after.title # before.title THEN after.title ELSE @,
        !.status = IF after.status # before.status THEN after.status ELSE @,
        !.tasks =
            [i \in DOMAIN @ |->
                [@[i] EXCEPT
                    !.status =
                        IF after.tasks[i].status # before.tasks[i].status
                        THEN after.tasks[i].status ELSE @,
                    !.completedDate =
                        IF after.tasks[i].completedDate # before.tasks[i].completedDate
                        THEN after.tasks[i].completedDate ELSE @]],
        !.progress =
            [overall |->
                IF after.progress.overall # before.progress.overall
                THEN after.progress.overall ELSE @.overall,
             byCategory |->
                [c \in CategorySet |->
                    IF after.progress.byCategory[c] # before.progress.byCategory[c]
                    THEN after.progress.byCategory[c] ELSE @.byCategory[c]]]]

\* The stored roadmaps of the runs: generated, some tasks Completed since.
ConcurrentRoadmaps ==
    UNION {{GeneratedRoadmap(low, states) :
                states \in [1..Cardinality(low) ->
                              {t \in TaskStates : t.status \in {"Not Started", "Completed"}}]}
            : low \in SUBSET CategorySet}

ConcurrentRequests == [taskId : RequestTaskIds, status : RequestTaskStatuses]

Started == [pc |-> "start", doc |-> NoDoc]
Loaded(doc) == [pc |-> "loaded", doc |-> doc]
Done(doc) == [pc |-> "done", doc |-> doc]

InitConcurrent ==
    /\ questionnaires = <<>>
    /\ res = NoResponse
    /\ probe = NoProbe
    /\ classified = {}
    /\ now = 1
    /\ roadmaps \in {<<r>> : r \in ConcurrentRoadmaps}
    /\ input \in [1..MaxHandlers -> ConcurrentRequests]
    /\ handlers = [h \in 1..MaxHandlers |-> Started]

\* const roadmap = await Roadmap.findById(req.params.id)
Load(h) ==
    /\ handlers[h].pc = "start"
    /\ handlers' = [handlers EXCEPT ![h] = Loaded(roadmaps[1])]
    /\ UNCHANGED <<questionnaires, roadmaps, res, input, probe, classified, now>>

\* The ownership check (the owner passes) and await roadmap.updateTaskStatus.
Save(h) ==
    /\ handlers[h].pc = "loaded"
    /\ handlers' = [handlers EXCEPT ![h] = Done(handlers[h].doc)]
    /\ UNCHANGED <<questionnaires, input, probe, classified, now>>
    /\ LET outcome == updateTaskStatus(handlers[h].doc, input[h].taskId, input[h].status)
       IN  IF ~MayAccess(handlers[h].doc, "alice")
           THEN /\ res' = Response("updateTask", 403, "Access denied")
                /\ UNCHANGED roadmaps
           ELSE IF outcome.threw \/ ~RoadmapSchemaValid(outcome.doc)
           THEN /\ res' = Response("updateTask", 500, "Failed to update task")
                /\ UNCHANGED roadmaps
           ELSE /\ roadmaps' =
                    [roadmaps EXCEPT ![1] = Written(roadmaps[1], handlers[h].doc, outcome.doc)]
                /\ res' = Response("updateTask", 200, "")

NextConcurrent == \E h \in 1..MaxHandlers : Load(h) \/ Save(h)

SpecConcurrent == InitConcurrent /\ [][NextConcurrent]_vars

(***************************************************************************)
(* What the specification states, written from its own words.              *)
(***************************************************************************)
Stored(collection) == {i \in DOMAIN collection : collection[i] # NoDoc}

\* Section 4.2 step 1, in halves.
SpecifiedScore(r) ==
    CASE r.response = "Oui" -> 2 * r.weight
      [] r.response = "Partiellement" -> r.weight
      [] r.response = "Non" -> 0

\* Section 4.1: the tiers, each with its inclusive lower bound in tenths.
Tiers ==
    <<[min |-> 900, level |-> "Excellence", color |-> "success"],
      [min |-> 750, level |-> "Avance", color |-> "info"],
      [min |-> 600, level |-> "Intermediaire", color |-> "warning"],
      [min |-> 400, level |-> "Basique", color |-> "secondary"],
      [min |-> 0, level |-> "Critique", color |-> "danger"]>>

Tier(score) ==
    Tiers[CHOOSE i \in DOMAIN Tiers :
            /\ score >= Tiers[i].min
            /\ \A j \in 1..(i - 1) : score < Tiers[j].min]

IsTier(maturityLevel, score) ==
    /\ maturityLevel.level = Tier(score).level
    /\ maturityLevel.color = Tier(score).color

\* x = num / den rounded to an integer, a tie going up, in exact arithmetic.
HalfUp(num, den) == (2 * num + den) \div (2 * den)

\* v is an integer nearest to num / den (den > 0): |v - num / den| <= 1/2.
Nearest(v, num, den) ==
    /\ 2 * (v * den - num) <= den
    /\ 2 * (num - v * den) <= den

\* Section 4.2 step 6: the responses that are major non-conformities.
NonConformities(rs) == SelectSeq(rs, LAMBDA r : r.critical /\ r.response = "Non")

IsNonConformityList(ncs, rs) ==
    /\ Len(ncs) = Len(NonConformities(rs))
    /\ \A i \in DOMAIN ncs :
        /\ ncs[i].question = NonConformities(rs)[i].questionText
        /\ ncs[i].clause = NonConformities(rs)[i].clause

\* Section 4.4: round0 is the nearest integer, a tie going up.
SpecifiedProgress(tasks) ==
    [overall |->
        IF Len(tasks) > 0 THEN HalfUp(100 * Len(Completed(tasks)), Len(tasks)) ELSE 0,
     byCategory |->
        [c \in CategorySet |->
            IF Len(TasksIn(tasks, c)) > 0
            THEN HalfUp(100 * Len(Completed(TasksIn(tasks, c))), Len(TasksIn(tasks, c)))
            ELSE 0]]

(***************************************************************************)
(* C1.  After any sequence of roadmap operations the stored progress of    *)
(* every stored roadmap is the progress recomputed from its stored tasks.  *)
(***************************************************************************)
C1_ProgressIsRecomputed ==
    \A id \in Stored(roadmaps) :
        roadmaps[id].progress = SpecifiedProgress(roadmaps[id].tasks)

\* A roadmap with completed and open tasks, after a task status update.
C1_Witness ==
    \E id \in Stored(roadmaps) :
        /\ res = Response("updateTask", 200, "")
        /\ roadmaps[id].progress.overall \in 1..99
        /\ \E c \in CategorySet : roadmaps[id].progress.byCategory[c] = 100

(***************************************************************************)
(* C2.  Every stored questionnaire's derived fields (per-response score,   *)
(* overallScore, categoryScores, maturityLevel, majorNonConformities,      *)
(* totalQuestions, answeredQuestions) are the values computed from its     *)
(* stored responses.  The code never fills majorNonConformities (C7).      *)
(***************************************************************************)
C2_DerivedFieldsCurrent ==
    \A id \in Stored(questionnaires) :
        LET q == questionnaires[id]
        IN  /\ \A i \in DOMAIN q.responses :
                q.responses[i].score = SpecifiedScore(q.responses[i])
            /\ q.overallScore = OverallScore(q.responses)
            /\ \A c \in CategorySet : q.categoryScores[c] = CategoryScore(q.responses, c)
            /\ IsTier(q.maturityLevel, q.overallScore)
            /\ IsNonConformityList(q.majorNonConformities, q.responses)
            /\ q.totalQuestions = Len(q.responses)
            /\ q.answeredQuestions = Len(q.responses)

(***************************************************************************)
(* C3.  Every stored response with weight w > 0 has score w if its         *)
(* response is Oui, w / 2 if Partiellement and 0 if Non, after submission  *)
(* and after update, whatever score the client supplied.                   *)
(***************************************************************************)
C3_ResponseScore ==
    \A id \in Stored(questionnaires) :
        \A i \in DOMAIN questionnaires[id].responses :
            LET r == questionnaires[id].responses[i]
            IN  r.weight > 0 => r.score = SpecifiedScore(r)

\* An update stored a Partiellement and an Oui response of positive weight,
\* both sent with the client's score.
C3_Witness ==
    /\ res = Response("update", 200, "")
    /\ \E i, j \in DOMAIN questionnaires[1].responses :
        /\ questionnaires[1].responses[i].response = "Partiellement"
        /\ questionnaires[1].responses[i].weight = 17
        /\ questionnaires[1].responses[i].score = 17
        /\ questionnaires[1].responses[j].response = "Oui"
        /\ questionnaires[1].responses[j].weight = 3
        /\ questionnaires[1].responses[j].score = 2 * 3
    /\ \A i \in DOMAIN input : input[i].score \in ClientScores

(***************************************************************************)
(* C4.  overallScore is (sum of scores / sum of weights) * 100 rounded     *)
(* half-up to one decimal place when the sum of weights is > 0, and 0      *)
(* otherwise.  (In tenths: 1000 * score / weight rounded half-up.)         *)
(***************************************************************************)
C4_OverallScoreHalfUp ==
    \A id \in Stored(questionnaires) :
        LET q == questionnaires[id]
        IN  q.overallScore =
                IF SumWeight(q.responses) > 0
                THEN HalfUp(1000 * SumScore(q.responses), 2 * SumWeight(q.responses))
                ELSE 0

C6_MaturityClassification ==
    /\ \A c \in classified :
        /\ IsTier(c.result, c.score)
        /\ c.score = 900 => c.result.level = "Excellence"
        /\ c.score = 899 => c.result.level = "Avance"
        /\ c.score = 400 => c.result.level = "Basique"
        /\ c.score = 399 => c.result.level = "Critique"
    /\ \A id \in Stored(questionnaires) :
        IsTier(questionnaires[id].maturityLevel, questionnaires[id].overallScore)

\* 89.9 was classified, beside a stored questionnaire with its tier.
C6_Witness ==
    /\ \E c \in classified : c.score = 899 /\ c.result.level = "Avance"
    /\ \E id \in Stored(questionnaires) :
        questionnaires[id].maturityLevel.level = "Critique"

(***************************************************************************)
(* C7.  majorNonConformities of a stored questionnaire holds exactly one   *)
(* entry {question, clause, impact} for each response that is critical and *)
(* answered Non, and no other entry.                                       *)
(***************************************************************************)
C7_NonConformitiesListed ==
    \A id \in Stored(questionnaires) :
        IsNonConformityList(questionnaires[id].majorNonConformities,
                            questionnaires[id].responses)

(***************************************************************************)
(* C8.  Scoring [{Plan, 10, critical, Non}, {Plan, 10, Oui}] yields the    *)
(* scores [0, 10], categoryScores.Plan = 50, overallScore = 50.0,          *)
(* maturityLevel.level = "Critique" and one major non-conformity.          *)
(***************************************************************************)
C8_Scenario(rs) ==
    /\ Len(rs) = 2
    /\ rs[1].category = "Plan" /\ rs[1].weight = 10
    /\ rs[1].critical /\ rs[1].response = "Non"
    /\ rs[2].category = "Plan" /\ rs[2].weight = 10
    /\ ~rs[2].critical /\ rs[2].response = "Oui"

C8_ScenarioResult ==
    \A id \in Stored(questionnaires) :
        LET q == questionnaires[id]
        IN  C8_Scenario(q.responses) =>
                /\ q.responses[1].score = 0
                /\ q.responses[2].score = 2 * 10
                /\ q.categoryScores["Plan"] = 50
                /\ q.overallScore = 500
                /\ q.maturityLevel.level = "Critique"
                /\ Len(q.majorNonConformities) = 1

(***************************************************************************)
(* C9.  A submission or update whose responses hold a value outside        *)
(* {Oui, Non, Partiellement} fails, and creates and modifies no            *)
(* questionnaire: the submission with 400 Validation failed, the update    *)
(* with the save's validation error (500) unless it already failed with    *)
(* 404 or 403.                                                             *)
(***************************************************************************)
HasInvalidResponse(rs) == \E i \in DOMAIN rs : rs[i].response \notin ResponseValues

C9_InvalidResponseRejected ==
    [][/\ (HasInvalidResponse(input) /\ ScoreSubmit)
            => /\ questionnaires' = questionnaires
               /\ res' = Response("submit", 400, "Validation failed")
       /\ (HasInvalidResponse(input) /\ ScoreUpdate)
            => /\ questionnaires' = questionnaires
               /\ res' = IF Exists(questionnaires, 1)
                         THEN Response("update", 500, "Failed to update questionnaire")
                         ELSE Response("update", 404, "Questionnaire not found")
      ]_vars

\* The update of the stored questionnaire with a response "Peut-etre" beside
\* a valid one failed in save() and left the questionnaire as it was.
C9_Witness ==
    /\ HasInvalidResponse(input)
    /\ \E i \in DOMAIN input : input[i].response \in ResponseValues
    /\ res = Response("update", 500, "Failed to update questionnaire")
    /\ questionnaires = <<Seed>>

(***************************************************************************)
(* C10.  A submission or update whose responses hold a weight <= 0 fails   *)
(* and creates and modifies no questionnaire.                              *)
(***************************************************************************)
HasNonPositiveWeight(rs) == \E i \in DOMAIN rs : rs[i].weight <= 0

C10_NonPositiveWeightRejected ==
    [][(HasNonPositiveWeight(input) /\ (ScoreSubmit \/ ScoreUpdate))
            => /\ questionnaires' = questionnaires
               /\ res'.status \in {400, 500}
      ]_vars

(***************************************************************************)
(* C11.  In every stored questionnaire each response has                   *)
(* 0 <= score <= weight, overallScore lies in 0..100 and each of the four  *)
(* categoryScores lies in 0..100, for every input the routes accept.       *)
(* (score in halves: 0 <= score2 <= 2 * weight.)                           *)
(***************************************************************************)
C11_DerivedRanges ==
    \A id \in Stored(questionnaires) :
        LET q == questionnaires[id]
        IN  /\ \A i \in DOMAIN q.responses :
                /\ 0 <= q.responses[i].score
                /\ q.responses[i].score <= 2 * q.responses[i].weight
            /\ q.overallScore \in 0..1000
            /\ \A c \in CategorySet : q.categoryScores[c] \in 0..100

(***************************************************************************)
(* C12.  For every task sequence the recomputed overall progress is        *)
(* round(completed / total * 100) when there are tasks and 0 otherwise,    *)
(* and for each category c byCategory[c] is round(completed in c / tasks   *)
(* in c * 100) when c has tasks and 0 otherwise; only status Completed     *)
(* counts as completed; the empty sequence gives 0 everywhere.  round is   *)
(* an integer nearest to the exact percentage.                             *)
(***************************************************************************)
CountOf(tasks, P(_)) == Cardinality({i \in DOMAIN tasks : P(tasks[i])})

IsPercentage(v, part, whole) ==
    IF whole > 0 THEN Nearest(v, 100 * part, whole) ELSE v = 0

UnknownTask == roadmaps # <<>> /\ input.taskId \notin DOMAIN roadmaps[1].tasks

C13_UnknownTaskRejected ==
    [][(UnknownTask /\ input.status \in TaskStatuses /\ TaskUpdate)
            => /\ roadmaps' = roadmaps
               /\ res' = Response("updateTask", 500, "Failed to update task")
      ]_vars

\* The request named the task after the last of a roadmap with a Completed
\* task, and was answered 500.
C13_Witness ==
    /\ UnknownTask
    /\ input.taskId = Len(roadmaps[1].tasks) + 1
    /\ roadmaps[1].progress.overall > 0
    /\ res = Response("updateTask", 500, "Failed to update task")

(***************************************************************************)
(* C14.  updateTaskStatus(roadmap, taskId, Completed) on a task of the     *)
(* roadmap succeeds, sets that task's status to Completed and its          *)
(* completedDate to the current time, also when the task was already       *)
(* Completed (the date is refreshed), changes no other task, and stores    *)
(* the progress recomputed from the tasks in the same save.                *)
(***************************************************************************)
KnownTask == roadmaps # <<>> /\ input.taskId \in DOMAIN roadmaps[1].tasks

C14_CompletionStamped ==
    [][(KnownTask /\ input.status = "Completed" /\ TaskUpdate)
            => /\ res' = Response("updateTask", 200, "")
               /\ DOMAIN roadmaps'[1].tasks = DOMAIN roadmaps[1].tasks
               /\ roadmaps'[1].tasks[input.taskId] =
                    [roadmaps[1].tasks[input.taskId] EXCEPT
                        !.status = "Completed", !.completedDate = now]
               /\ \A i \in DOMAIN roadmaps[1].tasks :
                    i # input.taskId => roadmaps'[1].tasks[i] = roadmaps[1].tasks[i]
               /\ roadmaps'[1].progress = SpecifiedProgress(roadmaps'[1].tasks)
               /\ roadmaps'[1].milestones = roadmaps[1].milestones
      ]_vars

\* At time 2 the task was set Completed beside a task completed at time 0 and
\* a task that is not Completed: its date is 2, the progress 67.
C14_Witness ==
    /\ KnownTask
    /\ input.status = "Completed"
    /\ res = Response("updateTask", 200, "")
    /\ now = 2
    /\ Len(roadmaps[1].tasks) = 3
    /\ roadmaps[1].tasks[input.taskId].status = "Completed"
    /\ roadmaps[1].tasks[input.taskId].completedDate = 2
    /\ \E i \in DOMAIN roadmaps[1].tasks :
        roadmaps[1].tasks[i].status = "Completed" /\ roadmaps[1].tasks[i].completedDate = 0
    /\ roadmaps[1].progress.overall = 67

(***************************************************************************)
(* C15.  After any sequence of roadmap operations a task has a             *)
(* completedDate if and only if its status has transitioned to Completed:  *)
(* every Completed task has a completedDate, the tasks of a new roadmap    *)
(* have none, and a task's completedDate is set or changed only by a step  *)
(* that makes the task Completed.                                          *)
(***************************************************************************)
CompletedTasksDated ==
    \A id \in Stored(roadmaps) :
        \A i \in DOMAIN roadmaps[id].tasks :
            roadmaps[id].tasks[i].status = "Completed"
                => roadmaps[id].tasks[i].completedDate # NoDate

DatedOnlyByCompletion ==
    \A id \in Stored(roadmaps') :
        IF id \in Stored(roadmaps)
        THEN /\ DOMAIN roadmaps'[id].tasks = DOMAIN roadmaps[id].tasks
             /\ \A i \in DOMAIN roadmaps[id].tasks :
                    \/ roadmaps'[id].tasks[i].completedDate = roadmaps[id].tasks[i].completedDate
                    \/ /\ roadmaps'[id].tasks[i].status = "Completed"
                       /\ roadmaps'[id].tasks[i].completedDate = now
        ELSE \A i \in DOMAIN roadmaps'[id].tasks :
                /\ roadmaps'[id].tasks[i].status # "Completed"
                /\ roadmaps'[id].tasks[i].completedDate = NoDate

C15_CompletedDateIffCompleted ==
    []CompletedTasksDated /\ [][DatedOnlyByCompletion]_vars

\* A roadmap with a Completed task (dated), a task that was Completed and is
\* In Progress again (dated) and a task never Completed (no date).
C15_Witness ==
    \E id \in Stored(roadmaps) :
        \E i, j, k \in DOMAIN roadmaps[id].tasks :
            /\ roadmaps[id].tasks[i].status = "Completed"
            /\ roadmaps[id].tasks[i].completedDate # NoDate
            /\ roadmaps[id].tasks[j].status = "In Progress"
            /\ roadmaps[id].tasks[j].completedDate # NoDate
            /\ roadmaps[id].tasks[k].status = "Not Started"
            /\ roadmaps[id].tasks[k].completedDate = NoDate

(***************************************************************************)
(* C16.  addTask with valid task data on a roadmap with n tasks succeeds   *)
(* and stores the roadmap with n + 1 tasks: the first n unchanged, the     *)
(* last built from the data supplied, the progress recomputed from the     *)
(* n + 1 tasks.                                                            *)
(***************************************************************************)
C16_TaskAppended ==
    [][\A body \in AddTaskBodies :
        (roadmaps # <<>> /\ AddTaskValidators(body) /\ AddTask("alice", 1, body))
            => /\ res'.status = 200
               /\ Len(roadmaps'[1].tasks) = Len(roadmaps[1].tasks) + 1
               /\ \A i \in DOMAIN roadmaps[1].tasks :
                    roadmaps'[1].tasks[i] = roadmaps[1].tasks[i]
               /\ roadmaps'[1].tasks[Len(roadmaps'[1].tasks)].title = body.title
               /\ roadmaps'[1].tasks[Len(roadmaps'[1].tasks)].category = body.category
               /\ roadmaps'[1].progress = SpecifiedProgress(roadmaps'[1].tasks)
      ]_vars

(***************************************************************************)
(* C17.  On a roadmap with n tasks of which k are Completed, addTask of a  *)
(* task that is not Completed gives n + 1 tasks with k Completed, and      *)
(* updateTaskStatus(new task, Completed) then stores progress.overall =    *)
(* round((k + 1) / (n + 1) * 100): from 3 tasks with 1 Completed (33) to   *)
(* 4 tasks, 2 Completed and 50.                                            *)
(***************************************************************************)
CompletedCount(doc) == Len(Completed(doc.tasks))

C17_AddThenComplete ==
    [][/\ (roadmaps # <<>> /\ TaskAdd)
            => /\ Len(roadmaps'[1].tasks) = Len(roadmaps[1].tasks) + 1
               /\ CompletedCount(roadmaps'[1]) = CompletedCount(roadmaps[1])
               /\ (Len(roadmaps[1].tasks) = 3 /\ CompletedCount(roadmaps[1]) = 1)
                    => (roadmaps[1].progress.overall = 33 /\ Len(roadmaps'[1].tasks) = 4)
       /\ (/\ roadmaps # <<>>
           /\ res.op = "addTask"
           /\ input.taskId = Len(roadmaps[1].tasks)
           /\ roadmaps[1].tasks[input.taskId].status # "Completed"
           /\ input.status = "Completed"
           /\ TaskUpdate)
            => /\ CompletedCount(roadmaps'[1]) = CompletedCount(roadmaps[1]) + 1
               /\ roadmaps'[1].progress.overall =
                    HalfUp(100 * (CompletedCount(roadmaps[1]) + 1), Len(roadmaps[1].tasks))
      ]_vars

C19_ProgressNotSettable ==
    [][/\ res'.op = "updateRoadmap" =>
            \A id \in Stored(roadmaps) :
                /\ id \in Stored(roadmaps')
                /\ roadmaps'[id].tasks = roadmaps[id].tasks
                /\ roadmaps'[id].milestones = roadmaps[id].milestones
                /\ roadmaps'[id].progress = roadmaps[id].progress
                /\ [roadmaps'[id] EXCEPT !.title = roadmaps[id].title,
                                         !.status = roadmaps[id].status] = roadmaps[id]
       /\ (res'.op = "createRoadmap" /\ res'.status = 201) =>
            /\ Len(roadmaps') = Len(roadmaps) + 1
            /\ roadmaps'[Len(roadmaps')].progress =
                    SpecifiedProgress(roadmaps'[Len(roadmaps')].tasks)
            /\ roadmaps'[Len(roadmaps')].progress.overall # 100
       /\ res'.op = "addTask" => roadmaps' = roadmaps
      ]_vars

\* A PUT with status, progress 100 and tasks [] succeeded on a roadmap whose
\* progress is 33: the status is stored, progress and tasks are as before.
C19_Witness ==
    /\ res = Response("updateRoadmap", 200, "")
    /\ \E id \in Stored(roadmaps) :
        /\ roadmaps[id].status = "Active"
        /\ Len(roadmaps[id].tasks) = 3
        /\ roadmaps[id].progress.overall = 33
    /\ \A body \in UpdateRoadmapBodies :
        /\ body.progress.overall = 100
        /\ Has(body, "tasks")

(***************************************************************************)
(* C20.  Roadmap creation fails with 403 Access denied and creates no      *)
(* roadmap when the questionnaire's owner is not the requesting user, an   *)
(* admin included, and fails with 404 when the questionnaire does not      *)
(* exist; so every stored roadmap has the userId of the questionnaire it   *)
(* was generated from (while that questionnaire is stored).                *)
(***************************************************************************)
RoadmapOwnerIsQuestionnaireOwner ==
    \A id \in Stored(roadmaps) :
        roadmaps[id].questionnaireId \in Stored(questionnaires)
            => roadmaps[id].userId = questionnaires[roadmaps[id].questionnaireId].userId

ForeignQuestionnaireRefused ==
    res'.op = "createRoadmap" =>
        \A user \in Users, body \in CreateRoadmapBodies :
            (CreateRoadmapValidators(body) /\ CreateRoadmap(user, body)) =>
                IF body.questionnaireId \notin Stored(questionnaires)
                THEN /\ roadmaps' = roadmaps
                     /\ res' = Response("createRoadmap", 404, "Questionnaire not found")
                ELSE questionnaires[body.questionnaireId].userId # user
                        => /\ roadmaps' = roadmaps
                           /\ res' = Response("createRoadmap", 403, "Access denied")

GeneratedFrom(id) == questionnaires[roadmaps[id].questionnaireId]

C21_PriorityAreas ==
    \A id \in Stored(roadmaps) :
        LET areas == roadmaps[id].priorityAreas
        IN  /\ Len(areas) = Cardinality(CategorySet)
            /\ \A c \in CategorySet :
                    Cardinality({i \in DOMAIN areas : areas[i].category = c}) = 1
            /\ \A i \in DOMAIN areas :
                    LET current == GeneratedFrom(id).categoryScores[areas[i].category]
                    IN  /\ areas[i].currentScore = current
                        /\ areas[i].targetScore =
                                IF current + 20 > 100 THEN 100 ELSE current + 20
                        /\ areas[i].improvementNeeded = areas[i].targetScore - current
                        /\ areas[i].improvementNeeded \in 0..20
                        /\ areas[i].targetScore <= 100

\* A roadmap generated from category scores 81 (target capped at 100, 19
\* needed), 39 (target 59), 100 (nothing needed) and 60.
C21_Witness ==
    \E id \in Stored(roadmaps) :
        /\ res = Response("createRoadmap", 201, "")
        /\ GeneratedFrom(id).categoryScores =
                [c \in CategorySet |->
                    CASE c = "Plan" -> 81 [] c = "Do" -> 39 [] c = "Check" -> 60 [] c = "Act" -> 100]
        /\ roadmaps[id].priorityAreas[1] =
                [category |-> "Plan", currentScore |-> 81, targetScore |-> 100,
                 improvementNeeded |-> 19]
        /\ roadmaps[id].priorityAreas[2].targetScore = 59
        /\ roadmaps[id].priorityAreas[4].improvementNeeded = 0

(***************************************************************************)
(* C22.  A generated roadmap holds exactly one task for each entry of the  *)
(* questionnaire's majorNonConformities, with title "Resolve: {question}", *)
(* priority Critical, effort "1-2 weeks", cost Medium, status Not Started  *)
(* and the category of the response the non-conformity originates from,    *)
(* also when responses of different categories share its clause.           *)
(***************************************************************************)
\* The response a non-conformity entry was listed for.
OriginOf(questionnaire, nc) ==
    CHOOSE i \in DOMAIN questionnaire.responses :
        /\ questionnaire.responses[i].critical
        /\ questionnaire.responses[i].response = "Non"
        /\ questionnaire.responses[i].questionText = nc.question
        /\ questionnaire.responses[i].clause = nc.clause

LowCategories(questionnaire) ==
    {c \in CategorySet : questionnaire.categoryScores[c] < 60}

C23_LowScoreTasks ==
    \A id \in Stored(roadmaps) :
        LET q == GeneratedFrom(id)
            tasks == roadmaps[id].tasks
            others == {i \in DOMAIN tasks : i > Len(q.majorNonConformities)}
        IN  /\ Len(tasks) = Len(q.majorNonConformities) + Cardinality(LowCategories(q))
            /\ \A c \in CategorySet :
                    Cardinality({i \in others : tasks[i].category = c}) =
                        IF q.categoryScores[c] < 60 THEN 1 ELSE 0
            /\ \A i \in others :
                    /\ tasks[i].title = <<"Improve", tasks[i].category>>
                    /\ tasks[i].priority =
                            IF q.categoryScores[tasks[i].category] < 40 THEN "High" ELSE "Medium"
                    /\ tasks[i].estimatedEffort = "2-4 weeks"
                    /\ tasks[i].cost = "Medium"
                    /\ tasks[i].status = "Not Started"

\* Generated from Plan 40 (Medium), Do 39 (High), Check 60 (no task) and
\* Act 59 (Medium), with one non-conformity listed: four tasks.
C23_Witness ==
    \E id \in Stored(roadmaps) :
        /\ GeneratedFrom(id).categoryScores =
                [c \in CategorySet |->
                    CASE c = "Plan" -> 40 [] c = "Do" -> 39 [] c = "Check" -> 60 [] c = "Act" -> 59]
        /\ Len(GeneratedFrom(id).majorNonConformities) = 1
        /\ Len(roadmaps[id].tasks) = 4
        /\ roadmaps[id].tasks[2].category = "Plan" /\ roadmaps[id].tasks[2].priority = "Medium"
        /\ roadmaps[id].tasks[3].category = "Do" /\ roadmaps[id].tasks[3].priority = "High"
        /\ roadmaps[id].tasks[4].category = "Act" /\ roadmaps[id].tasks[4].priority = "Medium"

(***************************************************************************)
(* C24.  Every generated roadmap has exactly three milestones, in order:   *)
(* "Initial Assessment Complete", Completed, at the time of generation     *)
(* + 30 days; "Critical Issues Resolved", Pending, at + 90 days; "Target   *)
(* Maturity Level Achieved", Pending, at + 365 days; and exactly three     *)
(* compliance requirements with deadlines at + 180, + 270 and + 365 days.  *)
(* (In these runs the clock stands still once the roadmap is generated.)   *)
(***************************************************************************)
DaysAfter(time, n) == time + n * 86400

C24_MilestonesAndRequirements ==
    \A id \in Stored(roadmaps) :
        LET ms == roadmaps[id].milestones
            cs == roadmaps[id].complianceRequirements
        IN  /\ Len(ms) = 3
            /\ ms[1].title = "Initial Assessment Complete"
            /\ ms[1].status = "Completed"
            /\ ms[1].targetDate = DaysAfter(now, 30)
            /\ ms[2].title = "Critical Issues Resolved"
            /\ ms[2].status = "Pending"
            /\ ms[2].targetDate = DaysAfter(now, 90)
            /\ ms[3].title = "Target Maturity Level Achieved"
            /\ ms[3].status = "Pending"
            /\ ms[3].targetDate = DaysAfter(now, 365)
            /\ Len(cs) = 3
            /\ cs[1].deadline = DaysAfter(now, 180)
            /\ cs[2].deadline = DaysAfter(now, 270)
            /\ cs[3].deadline = DaysAfter(now, 365)

\* A roadmap generated at time 2: the first milestone is due at 2 + 30 days,
\* the last requirement at 2 + 365 days.
C24_Witness ==
    /\ now = 2
    /\ res = Response("createRoadmap", 201, "")
    /\ \E id \in Stored(roadmaps) :
        /\ roadmaps[id].milestones[1].targetDate = 2592002
        /\ roadmaps[id].complianceRequirements[3].deadline = 31536002

(***************************************************************************)
(* C25.  Each mutation of a roadmap is an indivisible read-modify-write:   *)
(* between an operation's read of the document and its write-back no       *)
(* other mutation of the document takes effect (the document stored when   *)
(* the operation saves is the document it read); so two concurrent         *)
(* updateTaskStatus calls on different tasks of a roadmap both take effect *)
(* in the stored state.                                                    *)
(***************************************************************************)
AllDone == \A h \in DOMAIN handlers : handlers[h].pc = "done"

SavesWhatItRead ==
    \A h \in DOMAIN handlers :
        (handlers[h].pc = "loaded" /\ handlers'[h].pc = "done")
            => roadmaps[1] = handlers[h].doc

BothTakeEffect ==
    (handlers # <<>> /\ AllDone) =>
        \A h \in DOMAIN handlers :
            (/\ input[h].taskId \in DOMAIN roadmaps[1].tasks
             /\ \A g \in DOMAIN handlers : g # h => input[g].taskId # input[h].taskId)
                => roadmaps[1].tasks[input[h].taskId].status = input[h].status

C25_IndivisibleMutation ==
    [][SavesWhatItRead]_vars /\ []BothTakeEffect

(***************************************************************************)
(* C26.  Every scoring or roadmap mutation is all-or-nothing: a request    *)
(* that fails (validation, not found, ownership, task not found) leaves    *)
(* the stored questionnaires and roadmaps exactly as they were, and a      *)
(* request that succeeds stores the changed responses or tasks together    *)
(* with the derived scores or progress recomputed from them: no stored     *)
(* state holds new responses with old scores or new tasks with old         *)
(* progress.                                                               *)
(***************************************************************************)
FailureChangesNothing ==
    res'.status \notin {200, 201} =>
        /\ questionnaires' = questionnaires
        /\ roadmaps' = roadmaps

DerivedStoredTogether ==
    /\ \A id \in Stored(questionnaires) :
        LET q == questionnaires[id]
        IN  /\ \A i \in DOMAIN q.responses : q.responses[i].score = ResponseScore(q.responses[i])
            /\ q.overallScore = OverallScore(q.responses)
            /\ \A c \in CategorySet : q.categoryScores[c] = CategoryScore(q.responses, c)
            /\ q.maturityLevel = getMaturityLevel(OverallScore(q.responses))
            /\ q.totalQuestions = Len(q.responses)
    /\ \A id \in Stored(roadmaps) :
        /\ roadmaps[id].progress.overall = overallProgress(roadmaps[id].tasks)
        /\ roadmaps[id].progress.byCategory = categoryProgress(roadmaps[id].tasks)

C26_AllOrNothing ==
    [][FailureChangesNothing]_vars /\ []DerivedStoredTogether

\* An update with a response outside the enumeration failed in save(): the
\* questionnaire stored before, scoring 100, is stored as it was, beside a
\* roadmap with a Completed task.
C26_Witness ==
    /\ res = Response("update", 500, "Failed to update questionnaire")
    /\ \E id \in Stored(questionnaires) :
        /\ questionnaires[id].overallScore = 1000
        /\ questionnaires[id].responses[1].response = "Oui"
    /\ \E id \in Stored(roadmaps) : roadmaps[id].progress.overall > 0

(***************************************************************************)
(* C27.  For two concurrent updateTaskStatus requests on a roadmap, each   *)
(* loading the document, mutating it and saving it, in every interleaving  *)
(* of the loads and saves the progress stored at the end is the progress   *)
(* recomputed from the tasks stored at the end.                            *)
(***************************************************************************)
C27_ProgressAfterRace ==
    (handlers # <<>> /\ AllDone) =>
        roadmaps[1].progress = SpecifiedProgress(roadmaps[1].tasks)

(***************************************************************************)
(* C28.  A questionnaire update that supplies only notes, tags and/or      *)
(* status, and no responses, leaves the response sequence and every        *)
(* derived field (the per-response scores, overallScore, categoryScores,   *)
(* maturityLevel, majorNonConformities, totalQuestions, answeredQuestions) *)
(* as they were.                                                           *)
(***************************************************************************)
SameScoring(after, before) ==
    /\ after.responses = before.responses
    /\ after.overallScore = before.overallScore
    /\ after.categoryScores = before.categoryScores
    /\ after.maturityLevel = before.maturityLevel
    /\ after.majorNonConformities = before.majorNonConformities
    /\ after.totalQuestions = before.totalQuestions
    /\ after.answeredQuestions = before.answeredQuestions

C28_MetadataUpdateKeepsScoring ==
    [][\A body \in MetadataBodies :
        (Exists(questionnaires, 1) /\ UpdateQuestionnaire("alice", 1, body))
            => /\ res' = Response("update", 200, "")
               /\ Exists(questionnaires', 1)
               /\ SameScoring(questionnaires'[1], questionnaires[1])
               /\ questionnaires'[1].notes = body.notes
      ]_vars

\* A questionnaire with a Partiellement response, scored 28.7, was archived
\* with notes and tags by an update without responses.
C28_Witness ==
    /\ res = Response("update", 200, "")
    /\ Exists(questionnaires, 1)
    /\ questionnaires[1].status = "archived"
    /\ questionnaires[1].notes = "reviewed"
    /\ questionnaires[1].tags = <<"iso27001">>
    /\ questionnaires[1].overallScore = 287
    /\ \E i \in DOMAIN questionnaires[1].responses :
        questionnaires[1].responses[i].response = "Partiellement"

(***************************************************************************)
(* C29.  For the owner of a stored roadmap, and for an admin, GET          *)
(* /api/roadmaps/:id/progress succeeds and answers overall and byCategory  *)
(* as the roadmap's stored progress, with task counts by status whose      *)
(* completed + inProgress + notStarted + onHold is the total number of     *)
(* tasks; it never modifies the roadmap.                                   *)
(***************************************************************************)
C29_ProgressQuery ==
    [][\A user \in Users :
        (roadmaps # <<>> /\ MayAccess(roadmaps[1], user) /\ GetProgress(user, 1))
            => /\ res'.status = 200
               /\ res'.progress.overall = roadmaps[1].progress.overall
               /\ res'.progress.byCategory = roadmaps[1].progress.byCategory
               /\ res'.taskProgress.total = Len(roadmaps[1].tasks)
               /\ res'.taskProgress.completed + res'.taskProgress.inProgress
                    + res'.taskProgress.notStarted + res'.taskProgress.onHold
                        = res'.taskProgress.total
               /\ roadmaps' = roadmaps
      ]_vars

(***************************************************************************)
(* C30.  A user who is neither the owner of a roadmap or questionnaire nor *)
(* an admin can never read it, update it, add tasks to it, change a task   *)
(* status in it or delete it: every such request is rejected with access   *)
(* denied and leaves all stored roadmaps and questionnaires as they were.  *)
(***************************************************************************)
Stranger(doc, user) == doc.userId # user /\ Role(user) # "admin"

Denied ==
    /\ res'.status = 403
    /\ res'.error = "Access denied"
    /\ questionnaires' = questionnaires
    /\ roadmaps' = roadmaps

StrangerToQuestionnaireDenied ==
    \A user \in Users, id \in QuestionnaireIds :
        (Exists(questionnaires, id) /\ Stranger(questionnaires[id], user)) =>
            /\ (res'.op = "getQuestionnaire" /\ GetQuestionnaire(user, id)) => Denied
            /\ (res'.op = "update"
                    /\ \E body \in UpdateBodies : UpdateQuestionnaire(user, id, body)) => Denied
            /\ (res'.op = "delete" /\ DeleteQuestionnaire(user, id)) => Denied

StrangerToRoadmapDenied ==
    \A user \in Users, id \in RoadmapIds :
        (Exists(roadmaps, id) /\ Stranger(roadmaps[id], user)) =>
            /\ (res'.op = "getRoadmap" /\ GetRoadmap(user, id)) => Denied
            /\ (res'.op = "getProgress" /\ GetProgress(user, id)) => Denied
            /\ (res'.op = "updateRoadmap"
                    /\ \E body \in UpdateRoadmapBodies : UpdateRoadmap(user, id, body)) => Denied
            /\ (res'.op = "addTask"
                    /\ \E body \in AddTaskBodies : AddTask(user, id, body)) => Denied
            /\ (res'.op = "updateTask"
                    /\ \E taskId \in RequestTaskIds, status \in RequestTaskStatuses :
                            UpdateTaskStatus(user, id, taskId, status)) => Denied
            /\ (res'.op = "deleteRoadmap" /\ DeleteRoadmap(user, id)) => Denied

C30_StrangerDenied ==
    [][StrangerToQuestionnaireDenied /\ StrangerToRoadmapDenied]_vars

====
